---- MODULE Spec2Model ----
(***************************************************************************)
(* Model of DockerImageCache (src/docker_image_cache.py): the usage        *)
(* bookkeeping of put_image / record_stop / get_image_stats, called by     *)
(* several threads through the instance lock.                              *)
(***************************************************************************)
EXTENDS Integers, Sequences, FiniteSets, TLC

\* ---------------------------------------------------------------- bounds
NumImages == 3
NumContainers == 2
NumThreads == 2
MaxTime == 1
MaxCacheSize == 2
MaxWindow == 1
MaxHolds == 3
NumDrivers == 3
MaxIterations == 2

ImageNames == <<"img1", "img2", "img3", "img4", "img5">>
ContainerNames == <<"c1", "c2", "c3", "c4">>
Images == {ImageNames[k] : k \in 1..NumImages}
Containers == {ContainerNames[k] : k \in 1..NumContainers}
Threads == 1..NumThreads
NoThread == 0

\* ---------------------------------------------------------------- state
VARIABLES
    image_containers,       \* ordered dict image_id -> set of container ids
    image_usage_history,    \* dict image_id -> list of <<start, end>>
    container_start_times,  \* dict <<image_id, container_id>> -> start time
    time_window,            \* self.time_window
    cache_size,             \* self.cache_size
    policy,                 \* self.policy
    lock,                   \* self._lock: the thread holding it, or NoThread
    now,                    \* the value time.time() returns
    pc,                     \* per thread: where it is in its current call
    frame,                  \* per thread: arguments and locals of the call
    last,                   \* the call that returned most recently
    scenario                \* per scripted call sequence: results seen so far

cacheVars == <<image_containers, image_usage_history, container_start_times>>
configVars == <<time_window, cache_size, policy>>
vars == <<image_containers, image_usage_history, container_start_times,
          time_window, cache_size, policy, lock, now, pc, frame, last,
          scenario>>

\* ---------------------------------------------------------------- EvictionPolicy
LEAST_FREQUENTLY_USED == "LEAST_FREQUENTLY_USED"
LEAST_TOTAL_TIME_USED == "LEAST_TOTAL_TIME_USED"
\* any other object handed to the constructor as `policy`
OTHER_POLICY == "OTHER_POLICY"
Policies == {LEAST_FREQUENTLY_USED, LEAST_TOTAL_TIME_USED, OTHER_POLICY}

\* ---------------------------------------------------------------- dict helpers
\* keys of the ordered dict image_containers, as a set
Keys(d) == {d[k].image_id : k \in DOMAIN d}

\* position of key i in the ordered dict (i must be a key)
IndexOf(d, i) == CHOOSE k \in DOMAIN d : d[k].image_id = i

\* d[i] for a key i
Lookup(d, i) == d[IndexOf(d, i)].containers

\* d.pop(i) for a key i: the remaining entries keep their order
Pop(d, i) == SelectSeq(d, LAMBDA e : e.image_id # i)

\* d[i].add(c) on a defaultdict(set): a missing key is created at the end
AddContainer(d, i, c) ==
    IF i \in Keys(d)
    THEN [d EXCEPT ![IndexOf(d, i)].containers = @ \cup {c}]
    ELSE Append(d, [image_id |-> i, containers |-> {c}])

\* d[i].remove(c) for a key i
RemoveContainer(d, i, c) ==
    [d EXCEPT ![IndexOf(d, i)].containers = @ \ {c}]

\* f[k] = v on a plain dict
Store(f, k, v) == [x \in DOMAIN f \cup {k} |-> IF x = k THEN v ELSE f[x]]

EmptyDict == [x \in {} |-> 0]

RECURSIVE SumSeq(_)
SumSeq(s) == IF s = <<>> THEN 0 ELSE Head(s) + SumSeq(Tail(s))

\* ---------------------------------------------------------------- reads
\* variant of _get_unused_images without the `len(containers) == 0` filter
get_unused_images_unfiltered(d) == [k \in DOMAIN d |-> d[k].image_id]

\* _get_unused_images: ids, in dict order, whose container set is empty
get_unused_images(d) ==
    LET unused == SelectSeq(d, LAMBDA e : Cardinality(e.containers) = 0)
    IN  [k \in DOMAIN unused |-> unused[k].image_id]

\* _count_recent_usage
count_recent_usage(hist, i, t, window) ==
    IF i \notin DOMAIN hist
    THEN 0
    ELSE LET cutoff_time == t - window
         IN  Len(SelectSeq(hist[i], LAMBDA iv : iv[1] >= cutoff_time))

\* _get_total_usage_time
get_total_usage_time(hist, i, t, window) ==
    IF i \notin DOMAIN hist
    THEN 0
    ELSE LET cutoff_time == t - window
             recent == SelectSeq(hist[i], LAMBDA iv : iv[1] >= cutoff_time)
         IN  SumSeq([k \in DOMAIN recent |-> recent[k][2] - recent[k][1]])

\* min(seq, key=...): the first element, in order, with the least key
\* (key: the function from the elements to their keys)
MinByKey(seq, key) ==
    seq[CHOOSE k \in DOMAIN seq :
            /\ \A j \in DOMAIN seq : key[seq[k]] <= key[seq[j]]
            /\ \A j \in 1..(k-1) : key[seq[j]] > key[seq[k]]]


\* ---------------------------------------------------------------- operations
\* variant of _record_usage that does not store the start time
record_usage_no_hold(d, starts, i, c, t) ==
    [image_containers |-> AddContainer(d, i, c),
     container_start_times |-> starts]

\* _record_usage: add the container to the image's set, (re)start its hold
record_usage(d, starts, i, c, t) ==
    [image_containers |-> AddContainer(d, i, c),
     container_start_times |-> Store(starts, <<i, c>>, t)]

\* the history of an image, empty when the defaultdict has no entry for it
HistoryOf(hist, i) == IF i \in DOMAIN hist THEN hist[i] ELSE <<>>

\* variant of record_stop that records the interval and removes the
\* container but leaves the hold in container_start_times
record_stop_keeps_hold(d, hist, starts, i, c, t) ==
    IF <<i, c>> \in DOMAIN starts
    THEN [image_containers |->
              IF i \in Keys(d) THEN RemoveContainer(d, i, c) ELSE d,
          image_usage_history |->
              Store(hist, i, Append(HistoryOf(hist, i), <<starts[<<i, c>>], t>>)),
          container_start_times |-> starts, result |-> "None"]
    ELSE [image_containers |-> d, image_usage_history |-> hist,
          container_start_times |-> starts, result |-> "None"]

\* variant of record_stop that deletes the hold before it fails
record_stop_deletes_hold_first(d, hist, starts, i, c, t) ==
    IF <<i, c>> \in DOMAIN starts
    THEN [image_containers |-> d, image_usage_history |-> hist,
          container_start_times |->
              [x \in DOMAIN starts \ {<<i, c>>} |-> starts[x]],
          result |-> "AttributeError"]
    ELSE [image_containers |-> d, image_usage_history |-> hist,
          container_start_times |-> starts, result |-> "None"]

\* variant of record_stop that drops the image of a stopped hold
record_stop_drops_image(d, hist, starts, i, c, t) ==
    IF <<i, c>> \in DOMAIN starts
    THEN [image_containers |-> Pop(d, i), image_usage_history |-> hist,
          container_start_times |-> starts, result |-> "None"]
    ELSE [image_containers |-> d, image_usage_history |-> hist,
          container_start_times |-> starts, result |-> "None"]

\* record_stop, the body under the lock.  __init__ never creates
\* self.image_total_usage_time, so the update of it for an open hold
\* raises AttributeError before the hold is deleted or the container removed.
record_stop(d, hist, starts, i, c, t) ==
    IF <<i, c>> \in DOMAIN starts
    THEN [image_containers |-> d, image_usage_history |-> hist,
          container_start_times |-> starts, result |-> "AttributeError"]
    ELSE IF i \in Keys(d) /\ c \in Lookup(d, i)
         THEN [image_containers |-> RemoveContainer(d, i, c),
               image_usage_history |-> hist,
               container_start_times |-> starts, result |-> "None"]
         ELSE [image_containers |-> d, image_usage_history |-> hist,
               container_start_times |-> starts, result |-> "None"]

NoVictim == "-"

\* variant of put_image that tests the capacity before the presence
put_image_check_capacity_first(d, hist, i, t, window, size, pol) ==
    IF Len(d) <= size
    THEN [branch |-> "direct", victim |-> NoVictim]
    ELSE IF i \in Keys(d)
    THEN [branch |-> "already", victim |-> NoVictim]
    ELSE LET unused_images == get_unused_images(d)
         IN  IF unused_images = <<>>
             THEN [branch |-> "none", victim |-> NoVictim]
             ELSE IF pol = LEAST_FREQUENTLY_USED
             THEN [branch |-> "evict",
                   victim |-> MinByKey(unused_images,
                       [x \in Keys(d) |->
                           count_recent_usage(hist, x, t, window)])]
             ELSE IF pol = LEAST_TOTAL_TIME_USED
             THEN [branch |-> "evict",
                   victim |-> MinByKey(unused_images,
                       [x \in Keys(d) |->
                           get_total_usage_time(hist, x, t, window)])]
             ELSE [branch |-> "raise", victim |-> NoVictim]

\* variant of put_image that stops admitting one image early
put_image_check_one_short(d, hist, i, t, window, size, pol) ==
    IF i \in Keys(d)
    THEN [branch |-> "already", victim |-> NoVictim]
    ELSE IF Len(d) + 1 < size
    THEN [branch |-> "direct", victim |-> NoVictim]
    ELSE LET unused_images == get_unused_images(d)
         IN  IF unused_images = <<>>
             THEN [branch |-> "none", victim |-> NoVictim]
             ELSE IF pol = LEAST_FREQUENTLY_USED
             THEN [branch |-> "evict",
                   victim |-> MinByKey(unused_images,
                       [x \in Keys(d) |->
                           count_recent_usage(hist, x, t, window)])]
             ELSE IF pol = LEAST_TOTAL_TIME_USED
             THEN [branch |-> "evict",
                   victim |-> MinByKey(unused_images,
                       [x \in Keys(d) |->
                           get_total_usage_time(hist, x, t, window)])]
             ELSE [branch |-> "raise", victim |-> NoVictim]

\* put_image, the conditions and the victim selection
put_image_check(d, hist, i, t, window, size, pol) ==
    IF i \in Keys(d)
    THEN [branch |-> "already", victim |-> NoVictim]
    ELSE IF Len(d) <= size
    THEN [branch |-> "direct", victim |-> NoVictim]
    ELSE LET unused_images == get_unused_images(d)
         IN  IF unused_images = <<>>
             THEN [branch |-> "none", victim |-> NoVictim]
             ELSE IF pol = LEAST_FREQUENTLY_USED
             THEN [branch |-> "evict",
                   victim |-> MinByKey(unused_images,
                       [x \in Keys(d) |->
                           count_recent_usage(hist, x, t, window)])]
             ELSE IF pol = LEAST_TOTAL_TIME_USED
             THEN [branch |-> "evict",
                   victim |-> MinByKey(unused_images,
                       [x \in Keys(d) |->
                           get_total_usage_time(hist, x, t, window)])]
             ELSE [branch |-> "raise", victim |-> NoVictim]

\* variant of put_image that records the usage before it finds that nothing
\* can be evicted
put_image_apply_records_first(d, starts, i, c, t, dec) ==
    LET used == record_usage(d, starts, i, c, t)
        same == [image_containers |-> d, container_start_times |-> starts]
    IN  CASE dec.branch = "already" ->
                used @@ [result |-> "Already in cache"]
          [] dec.branch = "direct" ->
                used @@ [result |-> "Directly put in cache"]
          [] dec.branch = "none" ->
                used @@ [result |-> "None"]
          [] dec.branch = "raise" ->
                same @@ [result |-> "ValueError"]
          [] dec.branch = "evict" ->
                IF dec.victim \in Keys(d)
                THEN record_usage(Pop(d, dec.victim), starts, i, c, t)
                         @@ [result |-> dec.victim]
                ELSE same @@ [result |-> "KeyError"]

\* put_image, the updates and the returned value of the branch taken
put_image_apply(d, starts, i, c, t, dec) ==
    LET used == record_usage(d, starts, i, c, t)
        same == [image_containers |-> d, container_start_times |-> starts]
    IN  CASE dec.branch = "already" ->
                used @@ [result |-> "Already in cache"]
          [] dec.branch = "direct" ->
                used @@ [result |-> "Directly put in cache"]
          [] dec.branch = "none" ->
                same @@ [result |-> "None"]
          [] dec.branch = "raise" ->
                same @@ [result |-> "ValueError"]
          [] dec.branch = "evict" ->
                IF dec.victim \in Keys(d)
                THEN record_usage(Pop(d, dec.victim), starts, i, c, t)
                         @@ [result |-> dec.victim]
                ELSE same @@ [result |-> "KeyError"]

\* variant of get_image_stats that reports len(self.image_containers) as
\* the container count
get_image_stats_counts_images(d, hist, t, window) ==
    [k \in DOMAIN d |->
        <<d[k].image_id, Len(d),
          count_recent_usage(hist, d[k].image_id, t, window),
          get_total_usage_time(hist, d[k].image_id, t, window)>>]

\* get_image_stats: one tuple per key, in dict order
get_image_stats(d, hist, t, window) ==
    [k \in DOMAIN d |->
        <<d[k].image_id, Cardinality(d[k].containers),
          count_recent_usage(hist, d[k].image_id, t, window),
          get_total_usage_time(hist, d[k].image_id, t, window)>>]

\* variant of the lock that lets every thread in
lock_acquire_unguarded(l, t) == TRUE

\* `with self._lock`: entering blocks until no thread holds the lock
lock_acquire(l, t) == l = NoThread

\* ---------------------------------------------------------------- scripted call sequences
Call(op, i, c) == [op |-> op, image_id |-> i, container_id |-> c]
TickEvent == Call("tick", "-", "-")
A == ImageNames[1]
B == ImageNames[2]
C == ImageNames[3]
c1 == ContainerNames[1]
c2 == ContainerNames[2]

Scripts ==
    [capacity_one |->
        <<Call("put_image", A, c1), Call("put_image", B, c2),
          Call("record_stop", A, c1), Call("put_image", B, c2)>>,
     frequency |->
        <<Call("put_image", A, c1), Call("record_stop", A, c1),
          Call("put_image", A, c1), Call("record_stop", A, c1),
          Call("put_image", B, c1), Call("record_stop", B, c1),
          Call("put_image", C, c1)>>,
     total_time |->
        <<Call("put_image", A, c1), TickEvent, Call("record_stop", A, c1),
          Call("put_image", B, c1), Call("record_stop", B, c1),
          Call("put_image", C, c1)>>,
     restart |->
        <<Call("put_image", A, c1), TickEvent, Call("put_image", A, c1),
          Call("record_stop", A, c1)>>]

Off == <<"off">>

\* the results of the script's calls so far, while the calls made are
\* exactly the script's
Observe(seen, ev, result) ==
    [s \in DOMAIN Scripts |->
        IF /\ seen[s] # Off
           /\ Len(seen[s]) < Len(Scripts[s])
           /\ Scripts[s][Len(seen[s]) + 1] = ev
        THEN Append(seen[s], result)
        ELSE Off]

\* ---------------------------------------------------------------- Init
NoFrame == [op |-> "idle", image_id |-> "-", container_id |-> "-",
            branch |-> "-", victim |-> NoVictim, again |-> FALSE]

\* no call has returned since the last call began
NoLast == [op |-> "-", image_id |-> "-", container_id |-> "-",
           result |-> "-", stats |-> <<>>, thread |-> NoThread,
           again |-> FALSE]

\* the call that begins repeats the call that returned just before it
Again(op, i, c) ==
    last.op = op /\ last.image_id = i /\ last.container_id = c

Init ==
    /\ image_containers = <<>>
    /\ image_usage_history = EmptyDict
    /\ container_start_times = EmptyDict
    /\ time_window \in 1..MaxWindow
    /\ cache_size \in 1..MaxCacheSize
    /\ policy \in Policies
    /\ lock = NoThread
    /\ now = 0
    /\ pc = [t \in Threads |-> "idle"]
    /\ frame = [t \in Threads |-> NoFrame]
    /\ last = NoLast
    /\ scenario = [s \in DOMAIN Scripts |-> <<>>]

\* ---------------------------------------------------------------- actions
\* variant of the end of a call in which an exception leaves the `with
\* self._lock` block without releasing the lock
Returned_holds_lock_on_error(t, op, i, c, result, stats) ==
    /\ last' = [op |-> op, image_id |-> i, container_id |-> c,
                result |-> result, stats |-> stats, thread |-> t,
                again |-> frame[t].again]
    /\ scenario' = Observe(scenario, Call(op, i, c), result)
    /\ lock' = IF result \in {"AttributeError", "ValueError", "KeyError"}
               THEN lock ELSE NoThread
    /\ pc' = [pc EXCEPT ![t] = "idle"]
    /\ frame' = [frame EXCEPT ![t] = NoFrame]

\* a call returns or raises: leaving the `with self._lock` block releases
\* the lock either way
Returned(t, op, i, c, result, stats) ==
    /\ last' = [op |-> op, image_id |-> i, container_id |-> c,
                result |-> result, stats |-> stats, thread |-> t,
                again |-> frame[t].again]
    /\ scenario' = Observe(scenario, Call(op, i, c), result)
    /\ lock' = NoThread
    /\ pc' = [pc EXCEPT ![t] = "idle"]
    /\ frame' = [frame EXCEPT ![t] = NoFrame]

\* put_image: take the lock, evaluate the conditions, select the victim
PutImageCheck(t, i, c) ==
    /\ pc[t] = "idle"
    /\ Cardinality(DOMAIN container_start_times \cup {<<i, c>>}) <= MaxHolds
    /\ lock_acquire(lock, t)
    /\ lock' = t
    /\ pc' = [pc EXCEPT ![t] = "put_apply"]
    /\ frame' = [frame EXCEPT ![t] =
            [op |-> "put_image", image_id |-> i, container_id |-> c,
             again |-> Again("put_image", i, c)]
            @@ put_image_check(image_containers, image_usage_history, i,
                               now, time_window, cache_size, policy)]
    /\ last' = NoLast
    /\ UNCHANGED <<cacheVars, configVars, now, scenario>>

\* put_image: update the dicts, return, release the lock
PutImageApply(t) ==
    /\ pc[t] = "put_apply"
    /\ LET f == frame[t]
           r == put_image_apply(image_containers, container_start_times,
                                f.image_id, f.container_id, now, f)
       IN  /\ image_containers' = r.image_containers
           /\ container_start_times' = r.container_start_times
           /\ Returned(t, "put_image", f.image_id, f.container_id,
                       r.result, <<>>)
    /\ UNCHANGED <<image_usage_history, configVars, now>>

\* record_stop: take the lock
RecordStopLock(t, i, c) ==
    /\ pc[t] = "idle"
    /\ lock_acquire(lock, t)
    /\ lock' = t
    /\ pc' = [pc EXCEPT ![t] = "stop_body"]
    /\ frame' = [frame EXCEPT ![t] =
            [NoFrame EXCEPT !.op = "record_stop", !.image_id = i,
                            !.container_id = c,
                            !.again = Again("record_stop", i, c)]]
    /\ last' = NoLast
    /\ UNCHANGED <<cacheVars, configVars, now, scenario>>

\* record_stop: the body, then release the lock
RecordStopBody(t) ==
    /\ pc[t] = "stop_body"
    /\ LET f == frame[t]
           r == record_stop(image_containers, image_usage_history,
                            container_start_times, f.image_id,
                            f.container_id, now)
       IN  /\ image_containers' = r.image_containers
           /\ image_usage_history' = r.image_usage_history
           /\ container_start_times' = r.container_start_times
           /\ Returned(t, "record_stop", f.image_id, f.container_id,
                       r.result, <<>>)
    /\ UNCHANGED <<configVars, now>>

\* get_image_stats: take the lock
GetImageStatsLock(t) ==
    /\ pc[t] = "idle"
    /\ lock_acquire(lock, t)
    /\ lock' = t
    /\ pc' = [pc EXCEPT ![t] = "stats_body"]
    /\ frame' = [frame EXCEPT ![t] = 
            [NoFrame EXCEPT !.op = "get_image_stats",
                            !.again = Again("get_image_stats", "-", "-")]]
    /\ last' = NoLast
    /\ UNCHANGED <<cacheVars, configVars, now, scenario>>

\* get_image_stats: the body, then release the lock
GetImageStatsBody(t) ==
    /\ pc[t] = "stats_body"
    /\ Returned(t, "get_image_stats", "-", "-", "stats",
                get_image_stats(image_containers, image_usage_history,
                                now, time_window))
    /\ UNCHANGED <<cacheVars, configVars, now>>

\* time.time() advances
Tick ==
    /\ now < MaxTime
    /\ now' = now + 1
    /\ scenario' = Observe(scenario, TickEvent, "tick")
    /\ UNCHANGED <<cacheVars, configVars, lock, pc, frame, last>>

Next ==
    \/ \E t \in Threads, i \in Images, c \in Containers : PutImageCheck(t, i, c)
    \/ \E t \in Threads : PutImageApply(t)
    \/ \E t \in Threads, i \in Images, c \in Containers : RecordStopLock(t, i, c)
    \/ \E t \in Threads : RecordStopBody(t)
    \/ \E t \in Threads : GetImageStatsLock(t)
    \/ \E t \in Threads : GetImageStatsBody(t)
    \/ Tick

Spec == Init /\ [][Next]_vars


\* ---------------------------------------------------------------- claims
\* the values put_image returns for a completed admission
Terminal(result) ==
    result \in {"Already in cache", "Directly put in cache"} \cup Images

PutReturns(t) == pc[t] = "put_apply" /\ pc'[t] = "idle"
StopReturns(t) == pc[t] = "stop_body" /\ pc'[t] = "idle"
UnusedSet(d) == {get_unused_images(d)[k] : k \in DOMAIN get_unused_images(d)}
Snapshot(d, hist) == get_image_stats(d, hist, now, time_window)

\* C1: right after put_image returns a terminal outcome, the number of
\* resident images is at most cache_size.
C1_ResidentWithinCapacity ==
    (last.op = "put_image" /\ Terminal(last.result))
        => Len(image_containers) <= cache_size

\* C2: the unused images are exactly the resident images with no container;
\* an image put_image returns as evicted was resident and unused just before
\* the call returned; an image with at least one container is still resident
\* after every step.
C2_EvictionSparesUsed ==
    [][ /\ UnusedSet(image_containers) =
              {i \in Keys(image_containers) :
                  Lookup(image_containers, i) = {}}
        /\ \A t \in Threads :
              (PutReturns(t) /\ last'.result \in Images) =>
                  /\ last'.result \in Keys(image_containers)
                  /\ Lookup(image_containers, last'.result) = {}
                  /\ last'.result \in UnusedSet(image_containers)
        /\ \A i \in Keys(image_containers) :
              Lookup(image_containers, i) # {} =>
                  i \in Keys(image_containers') ]_vars

\* C2 witness: put_image reached the eviction path (image not resident, more
\* than cache_size residents), every resident image was in use, and all stayed.
C2_FullAndAllInUse ==
    /\ last.op = "put_image"
    /\ last.result = "None"
    /\ last.image_id \notin Keys(image_containers)
    /\ Len(image_containers) > cache_size
    /\ \A i \in Keys(image_containers) : Lookup(image_containers, i) # {}

\* C3: record_stop of a pair with an open hold deletes the hold, removes the
\* container from the image's set, appends one interval to the image's
\* history, and leaves the image unused when that was its last container.
C3_StopCompletesUsage ==
    [][ \A t \in Threads :
          LET i == frame[t].image_id
              c == frame[t].container_id
          IN  (StopReturns(t) /\ <<i, c>> \in DOMAIN container_start_times) =>
                /\ <<i, c>> \notin DOMAIN container_start_times'
                /\ i \in Keys(image_containers') =>
                       c \notin Lookup(image_containers', i)
                /\ Len(HistoryOf(image_usage_history', i)) =
                       Len(HistoryOf(image_usage_history, i)) + 1
                /\ (i \in Keys(image_containers)
                      /\ Lookup(image_containers, i) = {c}) =>
                       i \in UnusedSet(image_containers') ]_vars

\* C4: record_stop never raises; without a matching hold it changes nothing.
C4_StopNeverRaises ==
    [][ \A t \in Threads :
          StopReturns(t) =>
            /\ last'.result = "None"
            /\ <<frame[t].image_id, frame[t].container_id>>
                   \notin DOMAIN container_start_times
                 => UNCHANGED cacheVars ]_vars

\* C5: with cache_size 1, put_image(img1, c1), put_image(img2, c2),
\* record_stop(img1, c1), put_image(img2, c2) from the empty cache return
\* "Directly put in cache", None, None, "img1", and img2 is then the only
\* resident image.
C5_Expected == <<"Directly put in cache", "None", "None", A>>

C5_CapacityOneScenario ==
    (cache_size = 1 /\ scenario.capacity_one # Off) =>
        /\ \A k \in DOMAIN scenario.capacity_one :
              scenario.capacity_one[k] = C5_Expected[k]
        /\ Len(scenario.capacity_one) = 4 => Keys(image_containers) = {B}


\* the pair (i, c) is admitted: i is resident, c is one of its containers and
\* the hold of (i, c) is open
Admitted(i, c) ==
    /\ i \in Keys(image_containers)
    /\ c \in Lookup(image_containers, i)
    /\ <<i, c>> \in DOMAIN container_start_times

\* C6: right after put_image(i, c) returns "Already in cache", "Directly put
\* in cache" or an evicted image, (i, c) is admitted; right after it returns
\* None, (i, c) is not admitted.
C6_TerminalMeansAdmitted ==
    last.op = "put_image" =>
        /\ Terminal(last.result) => Admitted(last.image_id, last.container_id)
        /\ last.result = "None" => ~Admitted(last.image_id, last.container_id)

\* C6 witness: a put_image has just admitted a second container of an image.
C6_AdmittedSecondUser ==
    /\ last.op = "put_image"
    /\ last.result = "Already in cache"
    /\ Cardinality(Lookup(image_containers, last.image_id)) = 2
    /\ Admitted(last.image_id, last.container_id)

\* the number of resident images a sequential run of put_image can reach:
\* the admission test is `len(self.image_containers) <= self.cache_size`
SequentialMost == cache_size + 1

\* C7: at most one thread is inside put_image, record_stop or
\* get_image_stats; the branch and victim a put_image has selected are the
\* ones the current dicts give (no other call changed them in between); the
\* threads never make more images resident than a sequential run can.
C7_CallsAreAtomic ==
    /\ Cardinality({t \in Threads : pc[t] # "idle"}) <= 1
    /\ \A t \in Threads :
          pc[t] = "put_apply" =>
              /\ lock = t
              /\ [branch |-> frame[t].branch, victim |-> frame[t].victim] =
                     put_image_check(image_containers, image_usage_history,
                                     frame[t].image_id, now, time_window,
                                     cache_size, policy)
    /\ Len(image_containers) <= SequentialMost

\* C7 witness: the cache is as full as it gets and a thread holds the lock
\* inside put_image for an image that is not resident, the other threads out.
C7_LockedAtCapacity ==
    \E t \in Threads :
        /\ pc[t] = "put_apply"
        /\ lock = t
        /\ \A u \in Threads \ {t} : pc[u] = "idle"
        /\ frame[t].image_id \notin Keys(image_containers)
        /\ Len(image_containers) = SequentialMost

\* C8: with LEAST_FREQUENTLY_USED and cache_size 2, after image A was used
\* and stopped twice and image B once (all within the time window), both
\* resident and unused, put_image of a third image returns B as evicted.
C8_LeastFrequentScenario ==
    (/\ policy = LEAST_FREQUENTLY_USED
     /\ cache_size = 2
     /\ scenario.frequency # Off
     /\ Len(scenario.frequency) = Len(Scripts.frequency)) =>
        last.result = B

\* C9: with LEAST_TOTAL_TIME_USED and cache_size 2, after image A was used
\* for one time unit and image B for none (both stopped, within the time
\* window), put_image of a third image returns B as evicted.
C9_LeastTotalTimeScenario ==
    (/\ policy = LEAST_TOTAL_TIME_USED
     /\ cache_size = 2
     /\ scenario.total_time # Off
     /\ Len(scenario.total_time) = Len(Scripts.total_time)) =>
        last.result = B

\* C10: a record_stop(i, c) that directly follows a record_stop(i, c) changes
\* none of the dicts, so get_image_stats at the same time returns the same.
C10_SecondStopChangesNothing ==
    [][ \A t \in Threads :
          (StopReturns(t) /\ frame[t].again) =>
              /\ UNCHANGED cacheVars
              /\ Snapshot(image_containers', image_usage_history') =
                     Snapshot(image_containers, image_usage_history) ]_vars

\* C10 witness: record_stop was called twice in a row for a pair whose hold
\* was open at the first call.
C10_StoppedTwice ==
    /\ last.op = "record_stop"
    /\ last.again
    /\ last.result = "AttributeError"
    /\ <<last.image_id, last.container_id>> \in DOMAIN container_start_times


RecentCount(i) ==
    count_recent_usage(image_usage_history, i, now, time_window)
RecentTotal(i) ==
    get_total_usage_time(image_usage_history, i, now, time_window)

\* C11: the recent usage count of a resident image is the number of its
\* completed usages that started within the window, and the recent total
\* time is the sum of their durations: after put_image(A, c1),
\* record_stop(A, c1) at the same time the count is 1 and the total 0; after
\* put_image(A, c1), one time unit, record_stop(A, c1) the count is 1 and
\* the total 1.
C11_CompletedUsagesCounted ==
    /\ (scenario.frequency # Off /\ Len(scenario.frequency) = 2) =>
          (RecentCount(A) = 1 /\ RecentTotal(A) = 0)
    /\ (scenario.total_time # Off /\ Len(scenario.total_time) = 3) =>
          (RecentCount(A) = 1 /\ RecentTotal(A) = 1)

\* C12: after put_image(A, c1), record_stop(A, c1), at a time t with
\* t - time_window later than the start of that usage, the recent usage
\* count and the recent total time of A are 0 and the history of A still
\* holds the interval.
C12_ZeroAfterWindowHistoryKept ==
    (scenario.frequency # Off /\ Len(scenario.frequency) = 2) =>
        LET t == now + time_window + 1
        IN  /\ count_recent_usage(image_usage_history, A, t, time_window) = 0
            /\ get_total_usage_time(image_usage_history, A, t, time_window) = 0
            /\ Len(HistoryOf(image_usage_history, A)) = 1

\* C13: a put_image(i, c) that returns None changes no dict, and just
\* before it returned i was not resident and every resident image had at
\* least one container.
C13_NoneChangesNothing ==
    [][ \A t \in Threads :
          (PutReturns(t) /\ last'.result = "None") =>
              /\ UNCHANGED cacheVars
              /\ frame[t].image_id \notin Keys(image_containers)
              /\ \A i \in Keys(image_containers) :
                    Lookup(image_containers, i) # {} ]_vars

\* C13 witness: put_image has returned None twice in a row for the same pair
\* (the caller polled), and the pair is still not held.
C13_RefusedAgain ==
    /\ last.op = "put_image"
    /\ last.result = "None"
    /\ last.again
    /\ <<last.image_id, last.container_id>> \notin DOMAIN container_start_times


HeldImages == {p[1] : p \in DOMAIN container_start_times}

\* C14: an image returned as evicted is removed entirely and the new image
\* takes its place: with cache_size 1, after put_image(A, c1),
\* put_image(B, c2), record_stop(A, c1), the call put_image(B, c2) returns A,
\* and then A is not resident, has no hold and no history, and B is the one
\* resident image.
C14_VictimRemovedEntirely ==
    (/\ cache_size = 1
     /\ scenario.capacity_one # Off
     /\ Len(scenario.capacity_one) = Len(Scripts.capacity_one)) =>
        /\ last.result = A
        /\ A \notin Keys(image_containers)
        /\ A \notin HeldImages
        /\ A \notin DOMAIN image_usage_history
        /\ B \in Keys(image_containers)
        /\ Len(image_containers) = 1

\* C15: put_image(i, c) for a resident image i returns "Already in cache",
\* adds c to the containers of i, and leaves the keys, their order, the
\* containers of the other images and the histories as they were.
C15_ResidentIsAlreadyInCache ==
    [][ \A t \in Threads :
          (PutReturns(t) /\ frame[t].image_id \in Keys(image_containers)) =>
              /\ last'.result = "Already in cache"
              /\ Len(image_containers') = Len(image_containers)
              /\ \A k \in DOMAIN image_containers :
                    /\ image_containers'[k].image_id =
                           image_containers[k].image_id
                    /\ image_containers'[k].containers =
                           IF image_containers[k].image_id = frame[t].image_id
                           THEN image_containers[k].containers
                                    \cup {frame[t].container_id}
                           ELSE image_containers[k].containers
              /\ UNCHANGED image_usage_history ]_vars

\* C15 witness: put_image returned "Already in cache" for a new container of
\* a resident image while fewer than cache_size images were resident.
C15_AlreadyBelowCapacity ==
    /\ last.op = "put_image"
    /\ last.result = "Already in cache"
    /\ Len(image_containers) < cache_size
    /\ Lookup(image_containers, last.image_id) = Containers

\* C16: put_image(i, c) for an image i that is not resident while fewer than
\* cache_size images are resident returns "Directly put in cache"; i is
\* appended with the containers {c}, nothing else changes.
C16_BelowCapacityAdmitsDirectly ==
    [][ \A t \in Threads :
          (/\ PutReturns(t)
           /\ frame[t].image_id \notin Keys(image_containers)
           /\ Len(image_containers) < cache_size) =>
              /\ last'.result = "Directly put in cache"
              /\ image_containers' =
                     image_containers \o
                         <<[image_id |-> frame[t].image_id,
                            containers |-> {frame[t].container_id}]>>
              /\ UNCHANGED image_usage_history ]_vars

\* C16 witness: the second image has just been admitted directly with
\* cache_size 2.
C16_SecondAdmittedDirectly ==
    /\ last.op = "put_image"
    /\ last.result = "Directly put in cache"
    /\ cache_size = 2
    /\ Len(image_containers) = 2
    /\ Lookup(image_containers, last.image_id) = {last.container_id}

\* C17: with a policy that is neither of the two, a put_image of an image
\* that is not resident, with the cache full and an unused image, raises
\* ValueError and changes nothing: with cache_size 2, after A and B were
\* used and stopped, put_image(C, c1) raises and C is not admitted.
C17_UnknownPolicyRaises ==
    (/\ policy = OTHER_POLICY
     /\ cache_size = 2
     /\ scenario.frequency # Off
     /\ Len(scenario.frequency) = Len(Scripts.frequency)) =>
        /\ last.result = "ValueError"
        /\ C \notin Keys(image_containers)
        /\ C \notin HeldImages
        /\ Keys(image_containers) = {A, B}


StatsReturns(t) == pc[t] = "stats_body" /\ pc'[t] = "idle"

\* C18: get_image_stats changes no dict and returns one tuple per resident
\* image, in order, whose container count is the size of that image's
\* container set.
C18_StatsReadOnly ==
    [][ \A t \in Threads :
          StatsReturns(t) =>
              /\ UNCHANGED cacheVars
              /\ Len(last'.stats) = Len(image_containers)
              /\ \A k \in DOMAIN image_containers :
                    /\ last'.stats[k][1] = image_containers[k].image_id
                    /\ last'.stats[k][2] =
                           Cardinality(image_containers[k].containers) ]_vars

\* C18 witness: get_image_stats has just returned two tuples, one of them
\* with two containers.
C18_StatsOfTwoImages ==
    /\ last.op = "get_image_stats"
    /\ Len(last.stats) = 2
    /\ \E k \in DOMAIN last.stats : last.stats[k][2] = 2

\* C19: a hold of (i, c) is in container_start_times exactly when i is
\* resident and c is one of its containers.
C19_HoldsMatchContainers ==
    DOMAIN container_start_times =
        {p \in Images \X Containers :
            /\ p[1] \in Keys(image_containers)
            /\ p[2] \in Lookup(image_containers, p[1])}

\* C19 witness: record_stop was called for one of three open holds.
C19_StopAmongThreeHolds ==
    /\ last.op = "record_stop"
    /\ last.result = "AttributeError"
    /\ Cardinality(DOMAIN container_start_times) = 3
    /\ Admitted(last.image_id, last.container_id)

\* C20: an image leaves image_containers only in a step in which put_image
\* returns that image as evicted.
C20_OnlyEvictionRemoves ==
    [][ Keys(image_containers) \ Keys(image_containers') \subseteq
            IF \E t \in Threads : PutReturns(t) /\ last'.result \in Images
            THEN {last'.result}
            ELSE {} ]_vars

\* C20 witness: record_stop of a pair without a hold has returned for a
\* resident image, and two images are resident.
C20_StopLeavesResident ==
    /\ last.op = "record_stop"
    /\ last.result = "None"
    /\ last.image_id \in Keys(image_containers)
    /\ Len(image_containers) = 2


\* C21: when the unused images tie on the policy's key, the victim is the one
\* admitted first: with LEAST_FREQUENTLY_USED and cache_size 2, after A and
\* then B were each used and stopped once within the window,
\* put_image(C, c1) returns A as evicted.
C21_TieGoesToEarliest ==
    (/\ policy = LEAST_FREQUENTLY_USED
     /\ cache_size = 2
     /\ scenario.total_time # Off
     /\ Len(scenario.total_time) = Len(Scripts.total_time)) =>
        /\ last.result = A
        /\ Keys(image_containers) = {B, C}


\* ---------------------------------------------------------------- driver threads
\* thread_func of src/test.py: each thread has its own image and container
\* and loops `put_image until not None, run, record_stop`.
Drivers == 1..NumDrivers
ImageOf(t) == ImageNames[t]
ContainerOf(t) == ContainerNames[t]

DriverFrame(t, n) ==
    [op |-> "thread_func", image_id |-> ImageOf(t),
     container_id |-> ContainerOf(t), branch |-> "-", victim |-> NoVictim,
     again |-> FALSE, iter |-> n]

InitDriver ==
    /\ image_containers = <<>>
    /\ image_usage_history = EmptyDict
    /\ container_start_times = EmptyDict
    /\ time_window \in 1..MaxWindow
    /\ cache_size \in 1..MaxCacheSize
    /\ policy \in Policies
    /\ lock = NoThread
    /\ now = 0
    /\ pc = [t \in Drivers |-> "d_put"]
    /\ frame = [t \in Drivers |-> DriverFrame(t, 0)]
    /\ last = NoLast
    /\ scenario = [s \in DOMAIN Scripts |-> <<>>]

\* a call of the thread returns or raises: the lock is released either way
DriverReturned(t, op, result, next_pc, n) ==
    /\ last' = [op |-> op, image_id |-> ImageOf(t),
                container_id |-> ContainerOf(t), result |-> result,
                stats |-> <<>>, thread |-> t, again |-> frame[t].again]
    /\ scenario' = Observe(scenario, Call(op, ImageOf(t), ContainerOf(t)),
                           result)
    /\ lock' = NoThread
    /\ pc' = [pc EXCEPT ![t] = next_pc]
    /\ frame' = [frame EXCEPT ![t] = DriverFrame(t, n)]

\* cache.put_image(image_name, container_name), first call or retry: take
\* the lock, evaluate the conditions
DriverPutCheck(t) ==
    /\ pc[t] = "d_put"
    /\ lock_acquire(lock, t)
    /\ lock' = t
    /\ pc' = [pc EXCEPT ![t] = "d_put_apply"]
    /\ frame' = [frame EXCEPT ![t] =
            put_image_check(image_containers, image_usage_history,
                            ImageOf(t), now, time_window, cache_size,
                            policy)
            @@ [DriverFrame(t, frame[t].iter) EXCEPT
                !.again = Again("put_image", ImageOf(t), ContainerOf(t))]]
    /\ last' = NoLast
    /\ UNCHANGED <<cacheVars, configVars, now, scenario>>

\* put_image returns: None sends the thread back to polling, an exception
\* ends the thread, any other value lets it run its container
DriverPutApply(t) ==
    /\ pc[t] = "d_put_apply"
    /\ LET f == frame[t]
           r == put_image_apply(image_containers, container_start_times,
                                f.image_id, f.container_id, now, f)
       IN  /\ image_containers' = r.image_containers
           /\ container_start_times' = r.container_start_times
           /\ DriverReturned(t, "put_image", r.result,
                  IF r.result = "None" THEN "d_put"
                  ELSE IF r.result \in {"ValueError", "KeyError"}
                       THEN "d_crashed"
                       ELSE "d_run",
                  f.iter)
    /\ UNCHANGED <<image_usage_history, configVars, now>>

\* the container has run; cache.record_stop(...) takes the lock
DriverStopLock(t) ==
    /\ pc[t] = "d_run"
    /\ lock_acquire(lock, t)
    /\ lock' = t
    /\ pc' = [pc EXCEPT ![t] = "d_stop_body"]
    /\ last' = NoLast
    /\ UNCHANGED <<cacheVars, configVars, now, frame, scenario>>

\* record_stop returns, and the loop goes on or ends; or it raises, and the
\* exception, which thread_func does not catch, ends the thread
DriverStopBody(t) ==
    /\ pc[t] = "d_stop_body"
    /\ LET f == frame[t]
           r == record_stop(image_containers, image_usage_history,
                            container_start_times, f.image_id,
                            f.container_id, now)
       IN  /\ image_containers' = r.image_containers
           /\ image_usage_history' = r.image_usage_history
           /\ container_start_times' = r.container_start_times
           /\ IF r.result = "AttributeError"
              THEN DriverReturned(t, "record_stop", r.result, "d_crashed",
                                  f.iter)
              ELSE DriverReturned(t, "record_stop", r.result,
                       IF f.iter + 1 < MaxIterations THEN "d_put"
                                                     ELSE "d_done",
                       f.iter + 1)
    /\ UNCHANGED <<configVars, now>>

DriverStep(t) ==
    \/ DriverPutCheck(t)
    \/ DriverPutApply(t)
    \/ DriverStopLock(t)
    \/ DriverStopBody(t)

NextDriver ==
    \/ \E t \in Drivers : DriverPutCheck(t)
    \/ \E t \in Drivers : DriverPutApply(t)
    \/ \E t \in Drivers : DriverStopLock(t)
    \/ \E t \in Drivers : DriverStopBody(t)
    \/ Tick

\* every thread that can take a step again and again does take one
SpecDriver ==
    /\ InitDriver
    /\ [][NextDriver]_vars
    /\ \A t \in Drivers : SF_vars(DriverStep(t))

\* C22: every thread that polls put_image is eventually admitted, and every
\* thread eventually completes all its iterations.
C22_EveryDriverFinishes ==
    \A t \in Drivers :
        /\ (pc[t] = "d_put") ~> (pc[t] = "d_run")
        /\ <>(pc[t] = "d_done")


\* ---------------------------------------------------------------- fairness
\* a thread inside a call, holding the lock, goes on to the end of the call
InCall(t) ==
    \/ PutImageApply(t)
    \/ RecordStopBody(t)
    \/ GetImageStatsBody(t)

SpecFair ==
    /\ Init
    /\ [][Next]_vars
    /\ \A t \in Threads : WF_vars(InCall(t))

\* C23: the lock is held exactly while a call is in progress, by the thread
\* of that call, and every started call eventually returns (or raises) and
\* releases the lock: from every point on, each thread is again outside any
\* call without the lock; put_image never waits inside the call.
C23_EveryCallReturns ==
    /\ [](\A t \in Threads : (lock = t) <=> (pc[t] # "idle"))
    /\ []((\A t \in Threads : pc[t] = "idle") => lock = NoThread)
    /\ \A t \in Threads : []<>(pc[t] = "idle" /\ lock # t)

\* a call that ended by raising has returned, and the lock is free again
C23_RaisedAndReleased ==
    /\ last.result = "AttributeError"
    /\ lock = NoThread
    /\ \A t \in Threads : pc[t] = "idle"


\* C24: a consumer that starts the resident image it already holds gets
\* "Already in cache", the image's container set stays {c1} and there is one
\* hold for (A, c1), with the new start time; the single record_stop(A, c1)
\* that follows returns and takes c1 out of A's containers and closes the
\* hold.
C24_RestartThenOneStop ==
    (scenario.restart # Off) =>
        /\ Len(scenario.restart) >= 3 =>
              scenario.restart[3] = "Already in cache"
        /\ Len(scenario.restart) = 3 =>
              /\ Lookup(image_containers, A) = {c1}
              /\ DOMAIN container_start_times = {<<A, c1>>}
              /\ container_start_times[<<A, c1>>] = now
        /\ Len(scenario.restart) = 4 =>
              /\ scenario.restart[4] = "None"
              /\ c1 \notin Lookup(image_containers, A)
              /\ <<A, c1>> \notin DOMAIN container_start_times

====
